---- MODULE Spec2Model ----
(***************************************************************************)
(* Model of the game engine QuantumTicTacToe                              *)
(* (src/src/backend/quantum_tic_tac_toe.py).                               *)
(*                                                                         *)
(* The state is the engine object's fields.  Every public method is one    *)
(* action that models the whole call, the calls it makes included          *)
(* (_touch_cell, _increase_turns, the auto-collapse).  A call that raises  *)
(* leaves the fields as they were when the exception was thrown.           *)
(*                                                                         *)
(* Angles are integers in units of pi/4.  The circuit self._qc is kept as  *)
(* the set of qubits that carry a gate since their last reset.  The        *)
(* external executor is a nondeterministic input of the collapse: it fails *)
(* or yields one bit per measured qubit in each basis; a qubit that        *)
(* carries no gate measures 0 in the existence basis.  The display-only    *)
(* field _state_vectors is not modelled.                                   *)
(***************************************************************************)
EXTENDS Integers, FiniteSets, Sequences, TLC

\* ---------------------------------------------------------------- bounds
\* Number of state-changing engine calls explored in one behaviour.
MaxCalls == 2

\* The largest max_turns the constructor is given is MaxTurns or
\* MaxTurns + 1 (10 in the front ends; small here so that the auto-collapse
\* happens within the calls explored).
MaxTurns == 2

\* -------------------------------------------------------- configuration
\* max_angle = pi/2 and max_controlled_angle = pi, in units of pi/4.
max_angle == 2
max_controlled_angle == 4

EMPTY == "EMPTY"
X == "X"
O == "O"
DRAW == "DRAW"
ENTANGLED == "ENTANGLED"
State == {EMPTY, X, O, DRAW, ENTANGLED}
Axis == {"X", "Y", "Z"}

NoBoard == -1
Cells == 0 .. 8

\* The arguments the calls are tried with.  Angle 1 is within both budgets,
\* 2 is max_angle itself, 3 and -5 exceed max_angle, 5 and -5 exceed
\* max_controlled_angle in magnitude.  The arguments that make a call fail
\* are tried one at a time.
RotateArgs ==
    {<<"Y", 1, 1>>, <<"Y", 2, 2>>, <<"Z", 1, 1>>,
     <<"X", 3, 1>>, <<"X", -5, 1>>, <<"X", 1, 0>>}
TargetArgs == {<<"X", 1>>, <<"X", 5>>, <<"X", -5>>}

\* The cells <<board, cell>> the calls are tried on: two cells of board 0
\* and one of board 1 (which does not exist in classic mode).
Qubits == {<<0, 0>>, <<0, 1>>, <<1, 0>>}

VARIABLES
    ultimate,            \* self._ultimate
    mps,                 \* self._backend.name == "aer_simulator_matrix_product_state"
    max_turns,           \* self._max_turns
    budget,              \* number of calls explored in one behaviour
    boards,              \* self._boards
    turns,               \* self._turns
    c_board,             \* self._c_board
    c_cell,              \* self._c_cell
    moves_left_in_turn,  \* self._moves_left_in_turn
    touched,             \* self._touched
    board_wins,          \* self._board_wins
    active_cells,        \* self._active_cells
    entangled_boards,    \* self._entangled_boards
    available_boards,    \* self._available_boards
    qc,                  \* self._qc: qubits <<board, cell>> that carry a gate
    last,                \* the last call: its arguments and its outcome
    calls,               \* number of state-changing calls made so far
    cw_board,            \* the argument board of a call of _check_win
    cw_result,           \* what that call returned, "none" before it returns
    events,              \* the GUI events waiting for root.mainloop()
    callbacks            \* the GUI callbacks in progress, the innermost first

gameVars == <<boards, turns, c_board, c_cell, moves_left_in_turn, touched,
              board_wins, active_cells, entangled_boards, available_boards, qc>>
vars == <<ultimate, mps, max_turns, budget, boards, turns, c_board, c_cell, moves_left_in_turn,
          touched, board_wins, active_cells, entangled_boards,
          available_boards, qc, last, calls, cw_board, cw_result,
          events, callbacks>>

n_boards == IF ultimate THEN 9 ELSE 1
BoardIds == 0 .. (n_boards - 1)

\* The engine's fields as one value, so that the helpers the methods call
\* can be written as functions from fields to fields.
Game ==
    [boards |-> boards, turns |-> turns, c_board |-> c_board,
     c_cell |-> c_cell, moves_left_in_turn |-> moves_left_in_turn,
     touched |-> touched, board_wins |-> board_wins,
     active_cells |-> active_cells, entangled_boards |-> entangled_boards,
     available_boards |-> available_boards, qc |-> qc]

Abs(a) == IF a < 0 THEN -a ELSE a

\* ------------------------------------------------------------ _check_win
\* A variant of combinations without the two diagonals.
combinations_no_diagonals ==
    << <<0, 1, 2>>, <<3, 4, 5>>, <<6, 7, 8>>,
       <<0, 3, 6>>, <<1, 4, 7>>, <<2, 5, 8>> >>

\* Lines 639-651: the eight lines, in the order they are examined.
combinations ==
    << <<0, 1, 2>>, <<3, 4, 5>>, <<6, 7, 8>>,
       <<0, 3, 6>>, <<1, 4, 7>>, <<2, 5, 8>>,
       <<0, 4, 8>>, <<2, 4, 6>> >>

RowWinner(board, comb) ==
    IF \A k \in 1 .. 3 : board[comb[k]] = X THEN X
    ELSE IF \A k \in 1 .. 3 : board[comb[k]] = O THEN O
    ELSE EMPTY

\* A variant of RowFull that takes a Committed cell for an empty one.
RowFullMarked(board, comb) ==
    \A k \in 1 .. 3 : board[comb[k]] \in {X, O, DRAW}

\* Line 657: no cell of the line is empty.
RowFull(board, comb) == \A k \in 1 .. 3 : board[comb[k]] # EMPTY

\* A variant of CheckWinLoop without the return of line 670: the first
\* completed line decides.
RECURSIVE CheckWinLoopFirst(_, _, _, _)
CheckWinLoopFirst(board, i, winner, full) ==
    IF i > Len(combinations)
    THEN IF winner = EMPTY THEN (IF full THEN DRAW ELSE EMPTY) ELSE winner
    ELSE LET comb == combinations[i]
             full2 == full /\ RowFull(board, comb)
             current_winner == RowWinner(board, comb)
         IN  CheckWinLoopFirst(board, i + 1,
                               IF current_winner # EMPTY /\ winner = EMPTY
                               THEN current_winner ELSE winner,
                               full2)

RECURSIVE CheckWinLoop(_, _, _, _)
CheckWinLoop(board, i, winner, full) ==
    IF i > Len(combinations)
    THEN IF winner = EMPTY THEN (IF full THEN DRAW ELSE EMPTY) ELSE winner
    ELSE LET comb == combinations[i]
             full2 == full /\ RowFull(board, comb)
             current_winner == RowWinner(board, comb)
         IN  IF current_winner # EMPTY /\ winner # EMPTY /\ winner # current_winner
             THEN DRAW
             ELSE CheckWinLoop(board, i + 1,
                               IF current_winner # EMPTY /\ winner = EMPTY
                               THEN current_winner ELSE winner,
                               full2)

PrivCheckWin(board) == CheckWinLoop(board, 1, EMPTY, TRUE)

\* check_win(board=None)
check_win ==
    IF ultimate THEN PrivCheckWin(board_wins) ELSE board_wins[0]

\* ----------------------------------------------------------- _touch_cell
\* A variant of touch_cell that leaves the selectable boards alone.
touch_cell_keep(g, board, cell) ==
    [g |-> [g EXCEPT !.active_cells[board] = @ \cup {cell},
                     !.touched[board] = @ \cup {cell}],
     err |-> "ok"]

\* Returns the fields after the call and whether set.remove raised.
touch_cell(g, board, cell) ==
    LET g1 == [g EXCEPT !.active_cells[board] = @ \cup {cell},
                        !.touched[board] = @ \cup {cell}]
    IN  IF Cardinality(g.available_boards) # 1
        THEN IF board \in g.available_boards
             THEN [g |-> [g1 EXCEPT !.available_boards = @ \ {board}], err |-> "ok"]
             ELSE [g |-> g1, err |-> "KeyError"]
        ELSE [g |-> g1, err |-> "ok"]

\* A variant of SetAvailable that does not leave the finished boards out.
SetAvailableFinished(g) ==
    LET forced == {cell \in UNION {g.touched[b] : b \in BoardIds} :
                       cell = 0 \/ ultimate}
    IN  [g EXCEPT !.available_boards =
                      IF forced = {} THEN BoardIds ELSE forced,
                  !.touched = [b \in BoardIds |-> {}]]

\* A variant of SetAvailable that forces the boards that were touched,
\* where the code forces the boards named by the touched cells' indices.
SetAvailableByBoards(g) ==
    LET forced == {b \in BoardIds : g.touched[b] # {}}
        finished == {i \in 0 .. 8 : g.board_wins[i] # EMPTY}
        unfinishedForced == forced \ finished
    IN  [g EXCEPT !.available_boards =
                      IF unfinishedForced = {} THEN BoardIds \ finished
                      ELSE unfinishedForced,
                  !.touched = [b \in BoardIds |-> {}]]

\* ------------------------------------------------------- _increase_turns
\* A variant of SetAvailable without the fall-back of lines 616-620.
SetAvailableNoFallback(g) ==
    LET forced == {cell \in UNION {g.touched[b] : b \in BoardIds} :
                       cell = 0 \/ ultimate}
        finished == {i \in 0 .. 8 : g.board_wins[i] # EMPTY}
    IN  [g EXCEPT !.available_boards = forced \ finished,
                  !.touched = [b \in BoardIds |-> {}]]

\* Lines 601-622: the selectable boards for the next turn, from the cells
\* touched in the turn that ends, and the reset of the touched sets.
SetAvailable(g) ==
    LET forced == {cell \in UNION {g.touched[b] : b \in BoardIds} :
                       cell = 0 \/ ultimate}
        finished == {i \in 0 .. 8 : g.board_wins[i] # EMPTY}
        unfinishedForced == forced \ finished
    IN  [g EXCEPT !.available_boards =
                      IF unfinishedForced = {} THEN BoardIds \ finished
                      ELSE unfinishedForced,
                  !.touched = [b \in BoardIds |-> {}]]

\* The nested call collapse makes with _turns = -1: the counter becomes 0,
\* which is not max_turns (max_turns >= 1), so it does not collapse again.
IncreaseTurnsInner(g) == SetAvailable([g EXCEPT !.turns = @ + 1])

\* -------------------------------------------------------------- collapse
RECURSIVE SetToSeq(_)
SetToSeq(S) ==
    IF S = {} THEN <<>>
    ELSE LET e == CHOOSE e \in S : TRUE IN <<e>> \o SetToSeq(S \ {e})

\* A variant of CollapseWalk that stops at the neighbours of the first
\* board: it does not follow their own links.
CollapseWalkOneHop(to_check, bs, ent) ==
    LET b == to_check[1]
    IN  [boards |-> {b} \cup ent[b],
         ent |-> [x \in DOMAIN ent |-> IF x \in {b} \cup ent[b] THEN {}
                                       ELSE ent[x]]]

\* Lines 273-284: the work list of boards to collapse; each board popped
\* for the first time has its own adjacency set cleared.
RECURSIVE CollapseWalk(_, _, _)
CollapseWalk(to_check, bs, ent) ==
    IF Len(to_check) = 0 THEN [boards |-> bs, ent |-> ent]
    ELSE LET b == to_check[Len(to_check)]
             rest == SubSeq(to_check, 1, Len(to_check) - 1)
         IN  IF b \in bs THEN CollapseWalk(rest, bs, ent)
             ELSE CollapseWalk(rest \o SetToSeq(ent[b]), bs \cup {b},
                               [ent EXCEPT ![b] = {}])

\* Lines 269-284: the boards to collapse and the adjacency map afterwards.
CollapseBoards(g, board) ==
    IF board = NoBoard
    THEN [boards |-> BoardIds, ent |-> g.entangled_boards]
    ELSE CollapseWalk(<<board>>, {}, g.entangled_boards)

\* The qubits of the collapsed boards whose measurement the engine reads:
\* the active cells (lines 299-306) on the matrix-product-state simulator,
\* every qubit the circuit acts on (measure_active, lines 329-340) otherwise.
Measured(g, bs) ==
    IF mps THEN {q \in bs \X Cells : q[2] \in g.active_cells[q[1]]}
    ELSE {q \in g.qc : q[1] \in bs}

NoExec == [fail |-> FALSE, exist |-> {}, symbol |-> {}]

\* What the executor can answer to the two requests of one collapse: a
\* failure, or the set of qubits measured 1 in each basis.  A qubit without
\* a gate is |0> and measures 0 in the existence basis.  The symbol bits are
\* enumerated for the qubits that exist; the answer in which no qubit exists
\* and every symbol bit is 1 stands for the symbol bits of the others.
ExecAnswers(m) ==
    {[fail |-> TRUE, exist |-> {}, symbol |-> {}],
     [fail |-> FALSE, exist |-> {}, symbol |-> m]} \cup
    {[fail |-> FALSE, exist |-> e, symbol |-> s] : e \in SUBSET m, s \in SUBSET m}

ExecOutcomes(g, bs) ==
    {ex \in ExecAnswers(Measured(g, bs) \cap g.qc) :
        ex.exist = {} \/ ex.symbol \subseteq ex.exist}

\* A variant of CollapsedCell with the two marks exchanged.
CollapsedCellSwapped(old, existBit, symbolBit) ==
    IF old \in {X, O} THEN old
    ELSE IF existBit THEN (IF symbolBit THEN O ELSE X)
    ELSE EMPTY

\* A variant of CollapsedCell without the skip of lines 355-357.
CollapsedCellOverwrite(old, existBit, symbolBit) ==
    IF existBit THEN (IF symbolBit THEN X ELSE O) ELSE EMPTY

\* Lines 343-376: the new state of one cell of a collapsed board.
CollapsedCell(old, existBit, symbolBit) ==
    IF old \in {X, O} THEN old
    ELSE IF existBit THEN (IF symbolBit THEN X ELSE O)
    ELSE EMPTY

\* Lines 343-373: the cells after the update of the boards bs.
CollapsedBoards(g, ex, bs) ==
    [b \in BoardIds |->
        IF b \in bs
        THEN [c \in Cells |-> CollapsedCell(g.boards[b][c],
                                            <<b, c>> \in ex.exist,
                                            <<b, c>> \in ex.symbol)]
        ELSE g.boards[b]]

\* A variant of CollapseWins that keeps the cached wins.
CollapseWinsStale(g, newBoards) == g.board_wins

\* Lines 387-389: the cached wins after the update.
CollapseWins(g, newBoards) ==
    [i \in 0 .. 8 |-> IF i \in BoardIds THEN PrivCheckWin(newBoards[i])
                      ELSE g.board_wins[i]]

\* Lines 376-383: the circuit after the resets of the measured qubits.  The
\* loop of lines 344-376 rebinds the name board (line 345) to a board
\* index, so the test "board is None" of line 379 is false for every call
\* and the circuit is never replaced: collapse(None) resets the qubits of
\* the cells that were not marked, like every other collapse.
CollapseCircuit(g, board, bs) ==
    g.qc \ {q \in bs \X Cells : g.boards[q[1]][q[2]] \notin {X, O}}

\* A variant of CollapseUpdate without the assignment of line 391.
CollapseUpdateKeepTurns(g1, board, ex, bs, newBoards) ==
    [g1 EXCEPT !.boards = newBoards,
               !.qc = CollapseCircuit(g1, board, bs),
               !.touched = [b \in BoardIds |-> {}],
               !.board_wins = CollapseWins(g1, newBoards)]

\* Lines 343-391: the fields after the update of the boards bs to newBoards
\* (g1 is the state after the measurement requests).
CollapseUpdate(g1, board, ex, bs, newBoards) ==
    [g1 EXCEPT !.boards = newBoards,
               !.qc = CollapseCircuit(g1, board, bs),
               !.touched = [b \in BoardIds |-> {}],
               !.board_wins = CollapseWins(g1, newBoards),
               !.turns = -1]

\* collapse(board) once the boards to collapse, w, are known (lines 286-394).
CollapseOf(g, board, ex, w) ==
    LET g1 == [g EXCEPT !.entangled_boards = w.ent,
                        !.active_cells = [b \in BoardIds |->
                            IF b \in w.boards THEN {} ELSE g.active_cells[b]]]
    IN  IF ex.fail
        THEN [g |-> g1, err |-> "SystemError", ret |-> {}]
        ELSE [g |-> IncreaseTurnsInner(
                        CollapseUpdate(g1, board, ex, w.boards,
                                       CollapsedBoards(g, ex, w.boards))),
              err |-> "ok", ret |-> w.boards]

\* collapse(board), board = NoBoard for None, with the executor's answer ex.
Collapse(g, board, ex) == CollapseOf(g, board, ex, CollapseBoards(g, board))

\* Whether ending the turn now runs the auto-collapse (lines 594-599).
AutoCollapses(g) == g.turns + 1 = max_turns

\* _increase_turns(), with the executor's answer ex to an auto-collapse.
\* Lines 601-624 after an auto-collapse that returned r.
AfterAutoCollapse(r) ==
    IF r.err # "ok" THEN r
    ELSE [g |-> SetAvailable(r.g), err |-> "ok", ret |-> r.ret]

\* A variant of IncreaseTurns that compares the counter with max_turns
\* before it is increased: the auto-collapse comes one turn late.
IncreaseTurnsLate(g, ex) ==
    IF g.turns = max_turns
    THEN AfterAutoCollapse(Collapse([g EXCEPT !.turns = @ + 1], NoBoard, ex))
    ELSE [g |-> SetAvailable([g EXCEPT !.turns = @ + 1]), err |-> "ok",
          ret |-> {}]

IncreaseTurns(g, ex) ==
    IF g.turns + 1 = max_turns
    THEN AfterAutoCollapse(Collapse([g EXCEPT !.turns = @ + 1], NoBoard, ex))
    ELSE [g |-> SetAvailable([g EXCEPT !.turns = @ + 1]), err |-> "ok",
          ret |-> {}]

\* The executor answers a turn-ending call can meet.
TurnEndOutcomes(g) ==
    IF AutoCollapses(g)
    THEN ExecOutcomes([g EXCEPT !.turns = @ + 1], BoardIds)
    ELSE {NoExec}


\* ------------------------------------------------------------ the calls
\* How a call ends: "ok", or the exception it raises.  An AssertionError is
\* recorded by its message.  The exceptions of Refusals are raised before
\* the call has changed any field (the assertions, the lookup of a board
\* that does not exist, the circuit's own argument check); "KeyError" is
\* raised by set.remove in _touch_cell and "SystemError" by collapse when
\* the executor fails.
Refusals ==
    {"Invalid board index", "Invalid cell index", "Angle too large",
     "Number of qubits must be at least 1", "Cannot rotate non-empty cell",
     "Cannot z-rotate entangled cell", "Cell is not empty",
     "Control qubit has not been selected", "IndexError", "CircuitError",
     "NoBoardError"}

\* The record of a call: its arguments, how it ended, the set it returned
\* and the executor's answer it consumed.
Call(op, board, cell, axis, angle, n, outcome, ret, ex) ==
    [op |-> op, board |-> board, cell |-> cell, axis |-> axis,
     angle |-> angle, n |-> n, outcome |-> outcome, ret |-> ret,
     exist |-> ex.exist, symbol |-> ex.symbol]

\* The record of a call that was refused: the operation and the exception.
Refused(op, outcome) ==
    Call(op, NoBoard, NoBoard, "-", 0, 0, outcome, {}, NoExec)

\* The engine's fields become g and the call is recorded.  A call that
\* passes its checks counts against MaxCalls; a call refused before it
\* changes a field does not.  A call made by a GUI callback returns to it,
\* and the callback ends.
Commit(g, call) ==
    /\ calls' = IF call.outcome \in Refusals THEN calls ELSE calls + 1
    /\ boards' = g.boards
    /\ turns' = g.turns
    /\ c_board' = g.c_board
    /\ c_cell' = g.c_cell
    /\ moves_left_in_turn' = g.moves_left_in_turn
    /\ touched' = g.touched
    /\ board_wins' = g.board_wins
    /\ active_cells' = g.active_cells
    /\ entangled_boards' = g.entangled_boards
    /\ available_boards' = g.available_boards
    /\ qc' = g.qc
    /\ last' = call
    /\ callbacks' = IF callbacks = <<>> THEN callbacks ELSE Tail(callbacks)
    /\ UNCHANGED <<ultimate, mps, max_turns, budget, cw_board, cw_result,
                   events>>

CanCall == calls < budget

\* reset(), lines 117-142 (the circuit self._qc is not touched).
ResetGame(g) ==
    [boards |-> [b \in BoardIds |-> [c \in Cells |-> EMPTY]],
     turns |-> 0,
     c_board |-> NoBoard,
     c_cell |-> NoBoard,
     moves_left_in_turn |-> 0,
     touched |-> [b \in BoardIds |-> {}],
     board_wins |-> [i \in 0 .. 8 |-> EMPTY],
     active_cells |-> [b \in BoardIds |-> {}],
     entangled_boards |-> [b \in BoardIds |-> {}],
     available_boards |-> BoardIds,
     qc |-> g.qc]

\* __init__, lines 92-107: a fresh circuit, then reset().
InitGame ==
    /\ boards = [b \in BoardIds |-> [c \in Cells |-> EMPTY]]
    /\ turns = 0
    /\ c_board = NoBoard
    /\ c_cell = NoBoard
    /\ moves_left_in_turn = 0
    /\ touched = [b \in BoardIds |-> {}]
    /\ board_wins = [i \in 0 .. 8 |-> EMPTY]
    /\ active_cells = [b \in BoardIds |-> {}]
    /\ entangled_boards = [b \in BoardIds |-> {}]
    /\ available_boards = BoardIds
    /\ qc = {}
    /\ last = Call("init", NoBoard, NoBoard, "-", 0, 0, "ok", {}, NoExec)
    /\ calls = 0

\* No call of _check_win is looked at on its own.
NoCheckWin ==
    /\ cw_board = [c \in Cells |-> EMPTY]
    /\ cw_result = "none"

\* No GUI: no event waits and no callback is in progress.
NoGui ==
    /\ events = <<>>
    /\ callbacks = <<>>

Init ==
    /\ ultimate \in BOOLEAN
    /\ mps \in BOOLEAN
    /\ max_turns \in {1, MaxTurns}
    /\ budget = MaxCalls
    /\ InitGame
    /\ NoCheckWin
    /\ NoGui

Reset ==
    /\ CanCall
    /\ Commit(ResetGame(Game),
              Call("reset", NoBoard, NoBoard, "-", 0, 0, "ok", {}, NoExec))

\* has_control()
has_control == c_board # NoBoard

\* A variant of RotateCheck that compares the signed angle.
RotateCheckSigned(g, board, cell, axis, angle, n) ==
    IF ~(board < n_boards) THEN "Invalid board index"
    ELSE IF ~(cell < 9) THEN "Invalid cell index"
    ELSE IF ~(angle <= max_angle) THEN "Angle too large"
    ELSE IF ~(n > 0) THEN "Number of qubits must be at least 1"
    ELSE IF g.boards[board][cell] \in {X, O} THEN "Cannot rotate non-empty cell"
    ELSE IF axis = "Z" /\ g.boards[board][cell] = ENTANGLED
    THEN "Cannot z-rotate entangled cell"
    ELSE "ok"

\* The assertions of rotate, lines 430-440: "ok", or the message of the
\* first one that fails.
RotateCheck(g, board, cell, axis, angle, n) ==
    IF ~(board < n_boards) THEN "Invalid board index"
    ELSE IF ~(cell < 9) THEN "Invalid cell index"
    ELSE IF ~(Abs(angle) <= max_angle) THEN "Angle too large"
    ELSE IF ~(n > 0) THEN "Number of qubits must be at least 1"
    ELSE IF g.boards[board][cell] \in {X, O} THEN "Cannot rotate non-empty cell"
    ELSE IF axis = "Z" /\ g.boards[board][cell] = ENTANGLED
    THEN "Cannot z-rotate entangled cell"
    ELSE "ok"

\* A variant of RotateMovesLeft that takes n from every call.
RotateMovesLeftEach(left, n) == n - 1

\* Lines 453-456 of rotate: the remaining-move counter.
RotateMovesLeft(left, n) == (IF left = 0 THEN n ELSE left) - 1

\* rotate(board, cell, axis, angle, n), lines 412-465.
Rotate(board, cell, axis, angle, n) ==
    LET g == Game
        check == RotateCheck(g, board, cell, axis, angle, n)
        g1 == [g EXCEPT !.qc = @ \cup {<<board, cell>>}]
        t == touch_cell(g1, board, cell)
        g2 == [t.g EXCEPT !.moves_left_in_turn = RotateMovesLeft(@, n)]
    IN  IF check # "ok"
        THEN Commit(g, Refused("rotate", check))
        ELSE IF ~CanCall THEN FALSE
        ELSE IF t.err # "ok"
        THEN Commit(t.g, Call("rotate", board, cell, axis, angle, n,
                              t.err, {}, NoExec))
        ELSE IF g2.moves_left_in_turn = 0
        THEN \E ex \in TurnEndOutcomes(g2) :
                \E r \in {IncreaseTurns(g2, ex)} :
                    Commit(r.g, Call("rotate", board, cell, axis, angle, n,
                                     r.err, r.ret, ex))
        ELSE Commit(g2, Call("rotate", board, cell, axis, angle, n,
                             "ok", {}, NoExec))

\* The assertions of rotate_control, lines 475-477.
RotateControlCheck(g, board, cell) ==
    IF ~(board < n_boards) THEN "Invalid board index"
    ELSE IF ~(cell < 9) THEN "Invalid cell index"
    ELSE IF g.boards[board][cell] \in {X, O} THEN "Cell is not empty"
    ELSE "ok"

\* rotate_control(board, cell), lines 467-486.
RotateControl(board, cell) ==
    LET g == Game
        check == RotateControlCheck(g, board, cell)
        g1 == [g EXCEPT !.c_board = board, !.c_cell = cell,
                        !.boards[board][cell] = ENTANGLED,
                        !.moves_left_in_turn = 1]
        t == touch_cell(g1, board, cell)
    IN  IF check # "ok"
        THEN Commit(g, Refused("rotate_control", check))
        ELSE CanCall /\ Commit(t.g, Call("rotate_control", board, cell, "-",
                                         0, 0, t.err, {}, NoExec))

\* How rotate_target ends before it changes any field: the assertions of
\* lines 509-513 (the cell lookup of line 513 raises IndexError for a board
\* that does not exist) and the gate of lines 518-524, which the circuit
\* refuses (CircuitError, duplicate qubit arguments) when control and
\* target are the same qubit.
RotateTargetCheck(g, board, cell, angle) ==
    IF ~(g.c_board # NoBoard /\ g.c_cell # NoBoard)
    THEN "Control qubit has not been selected"
    ELSE IF ~(angle <= max_controlled_angle) THEN "Angle too large"
    ELSE IF ~(board < n_boards) THEN "IndexError"
    ELSE IF g.boards[board][cell] \in {X, O} THEN "Cell is not empty"
    ELSE IF <<g.c_board, g.c_cell>> = <<board, cell>> THEN "CircuitError"
    ELSE "ok"

\* A variant of LinkBoards that records the link on the target's side only.
LinkOneWay(ent, board, control) == [ent EXCEPT ![board] = @ \cup {control}]

\* Lines 526-528 of rotate_target: the two boards are linked.
LinkBoards(ent, board, control) ==
    [[ent EXCEPT ![board] = @ \cup {control}] EXCEPT ![control] = @ \cup {board}]

\* A variant of TargetUpdate that leaves the target cell's state alone.
TargetUpdateNoMark(g, board, cell) ==
    [g EXCEPT !.qc = @ \cup {<<g.c_board, g.c_cell>>, <<board, cell>>},
              !.entangled_boards = LinkBoards(@, board, g.c_board),
              !.c_board = NoBoard, !.c_cell = NoBoard,
              !.moves_left_in_turn = 0]

\* Lines 515-537 of rotate_target: the gate, the link, the control, the
\* counter and the target cell.
TargetUpdate(g, board, cell) ==
    [g EXCEPT !.qc = @ \cup {<<g.c_board, g.c_cell>>, <<board, cell>>},
              !.entangled_boards = LinkBoards(@, board, g.c_board),
              !.c_board = NoBoard, !.c_cell = NoBoard,
              !.moves_left_in_turn = 0,
              !.boards[board][cell] = ENTANGLED]

\* rotate_target(board, cell, axis, angle), lines 488-546.
RotateTarget(board, cell, axis, angle) ==
    LET g == Game
        check == RotateTargetCheck(g, board, cell, angle)
        g1 == TargetUpdate(g, board, cell)
        t == touch_cell(g1, board, cell)
    IN  IF check # "ok"
        THEN Commit(g, Refused("rotate_target", check))
        ELSE IF ~CanCall THEN FALSE
        ELSE IF t.err # "ok"
        THEN Commit(t.g, Call("rotate_target", board, cell, axis, angle, 0,
                              t.err, {}, NoExec))
        ELSE \E ex \in TurnEndOutcomes(t.g) :
                \E r \in {IncreaseTurns(t.g, ex)} :
                    Commit(r.g, Call("rotate_target", board, cell, axis,
                                     angle, 0, r.err, r.ret, ex))

\* collapse(board) called by the front end; board = NoBoard for None.  A
\* board that does not exist raises KeyError at line 282, before any field
\* has changed ("NoBoardError" here, to tell it from _touch_cell's).
CollapseCall(board) ==
    LET g == Game
    IN  IF board # NoBoard /\ ~(board < n_boards)
        THEN Commit(g, Refused("collapse", "NoBoardError"))
        ELSE IF ~CanCall THEN FALSE
        ELSE \E w \in {CollapseBoards(g, board)} :
             \E ex \in ExecOutcomes(g, w.boards) :
             \E r \in {CollapseOf(g, board, ex, w)} :
                Commit(r.g, Call("collapse", board, NoBoard, "-", 0, 0,
                                 r.err, r.ret, ex))

\* Either mode and either backend, an auto-collapse after every turn or
\* after MaxTurns turns; calls on the cells of Qubits.
Next ==
    \/ \E q \in Qubits, a \in RotateArgs :
          Rotate(q[1], q[2], a[1], a[2], a[3])
    \/ \E q \in Qubits : RotateControl(q[1], q[2])
    \/ \E q \in Qubits, a \in TargetArgs :
          RotateTarget(q[1], q[2], a[1], a[2])
    \/ \E b \in {0, 1, NoBoard} : CollapseCall(b)
    \/ Reset

Spec == Init /\ [][Next]_vars

\* Ultimate mode, controlled rotations between cell 0 of boards 0, 1 and 2,
\* and collapses; max_turns leaves room for two links before the
\* auto-collapse.
InitLinks ==
    /\ ultimate = TRUE
    /\ mps = FALSE
    /\ max_turns = MaxTurns + 1
    /\ budget = MaxCalls + 3
    /\ InitGame
    /\ NoCheckWin
    /\ NoGui

NextLinks ==
    \/ \E b \in {0, 1, 2} : RotateControl(b, 0)
    \/ \E b \in {0, 1, 2} : RotateTarget(b, 0, "X", 1)
    \/ \E b \in {0, 1, 2, NoBoard} : CollapseCall(b)

SpecLinks == InitLinks /\ [][NextLinks]_vars

\* Either mode, rotations on the first row of board 0 and on cell 0 of
\* board 1, collapses and resets: long enough for a row to be measured and
\* played on afterwards.
MarkQubits == {<<0, 0>>, <<0, 1>>, <<0, 2>>, <<1, 0>>}
MarkArgs == {<<"Y", 1, 1>>, <<"Y", 1, 2>>}

InitMarks ==
    /\ ultimate \in BOOLEAN
    /\ mps = FALSE
    /\ max_turns = MaxTurns
    /\ budget = MaxCalls + 2
    /\ InitGame
    /\ NoCheckWin
    /\ NoGui

NextMarks ==
    \/ \E q \in MarkQubits, a \in MarkArgs :
          Rotate(q[1], q[2], a[1], a[2], a[3])
    \/ CollapseCall(0)
    \/ Reset

SpecMarks == InitMarks /\ [][NextMarks]_vars

\* ---------------------------------------------------------- the queries
\* enums.Move, by the names of its members, and each move's min_empty.
Move == {"RX", "RY", "RZ", "CRX", "CRY", "CRZ", "COLLAPSE"}

min_empty(move) == IF move \in {"CRX", "CRY", "CRZ"} THEN 2 ELSE 1

\* Lines 195-198 of available_cells: the cell states a move may be made on.
allowed(move) == IF move # "RZ" THEN {EMPTY, ENTANGLED} ELSE {EMPTY}

\* A variant of available_cells that does not look at the touched set.
available_cells_touched(board, move) ==
    SelectSeq([i \in 1 .. 9 |-> i - 1],
              LAMBDA i : boards[board][i] \in allowed(move))

\* available_cells(board, move), lines 184-204: the list of the cells, in
\* index order.
available_cells(board, move) ==
    SelectSeq([i \in 1 .. 9 |-> i - 1],
              LAMBDA i : /\ boards[board][i] \in allowed(move)
                         /\ i \notin touched[board])

\* count_avialable_cells(board, move), lines 229-240.
count_avialable_cells(board, move) == Len(available_cells(board, move))

\* available_boards(move), lines 169-182 (the list of a set: its order is
\* not determined, so it is kept as the set).
AvailableBoards(move) ==
    {i \in available_boards : count_avialable_cells(i, move) # 0}

\* Lines 220-222 of available_moves: the sum of the counts over the boards.
RECURSIVE SumCounts(_, _)
SumCounts(bs, move) ==
    IF bs = {} THEN 0
    ELSE LET b == CHOOSE b \in bs : TRUE
         IN  count_avialable_cells(b, move) + SumCounts(bs \ {b}, move)

\* A variant of available_moves that asks one cell of every move.
available_moves_one(moves) ==
    SelectSeq(moves, LAMBDA move : SumCounts(AvailableBoards(move), move) >= 1)

\* available_moves(moves), lines 206-227.
available_moves(moves) ==
    SelectSeq(moves,
              LAMBDA move :
                  SumCounts(AvailableBoards(move), move) >= min_empty(move))

\* The lists available_moves is asked about: the one main_gui.py passes
\* and a longer one in another order.
Candidates ==
    {<<"RY", "RZ", "CRX", "COLLAPSE">>,
     <<"CRZ", "COLLAPSE", "RZ", "RX", "CRY">>}

\* One classic game in which a turn touches every cell: rotations planned
\* for nine cells.  The ninth ends the turn.
InitFill ==
    /\ ultimate = FALSE
    /\ mps = FALSE
    /\ max_turns = MaxTurns
    /\ budget = MaxCalls + 7
    /\ InitGame
    /\ NoCheckWin
    /\ NoGui

NextFill == \E c \in Cells : Rotate(0, c, "Y", 1, 9)

SpecFill == InitFill /\ [][NextFill]_vars

\* ------------------------------------------------- moves the queries offer
\* App._enable_boards (gui/app.py, lines 325-334): the cells a player can
\* click for a move, the cells of available_cells(board, move) on the
\* boards of available_boards(move).
enable_boards(move) ==
    {q \in BoardIds \X Cells :
        /\ q[1] \in AvailableBoards(move)
        /\ \E i \in 1 .. Len(available_cells(q[1], move)) :
              available_cells(q[1], move)[i] = q[2]}

\* One ultimate game in which every call is made on a board and a cell the
\* queries offer for its move: controls on the first cell offered on board
\* 0, targets on cell 0 of board 2 and on cell 8 of board 0, collapses of
\* boards 1 and 2.  max_turns leaves room for two turns before a collapse,
\* and the calls for a turn that touches every cell of board 0.
InitDraw ==
    /\ ultimate = TRUE
    /\ mps = FALSE
    /\ max_turns = MaxTurns + 1
    /\ budget = MaxCalls + 11
    /\ InitGame
    /\ NoCheckWin
    /\ NoGui

NextDraw ==
    \/ \E c \in Cells :
          /\ <<0, c>> \in enable_boards("CRX")
          /\ c = Head(available_cells(0, "CRX"))
          /\ RotateControl(0, c)
    \/ \E q \in {<<2, 0>>, <<0, 8>>} :
          /\ q \in enable_boards("CRX")
          /\ RotateTarget(q[1], q[2], "X", 1)
    \/ \E b \in {1, 2} :
          /\ <<b, 0>> \in enable_boards("COLLAPSE")
          /\ CollapseCall(b)

SpecDraw == InitDraw /\ [][NextDraw]_vars

\* ------------------------------------------------------------- the GUI
\* The events that lead to a call of the engine: a click on a cell with the
\* move that is selected (Board._on_click and App._click_cell) and the
\* "Play again" button (App._reset).  A click is taken for any of the
\* cells, enabled or not: a call on a cell that is not offered is the
\* engine's to refuse.
GuiEvents ==
    [move : {"RY", "CRX", "COLLAPSE", "RESET"}, board : {0}, cell : {0, 1}]

\* One game behind the window of main_gui.py.
InitGui ==
    /\ ultimate \in BOOLEAN
    /\ mps = FALSE
    /\ max_turns = MaxTurns
    /\ budget = MaxCalls + 1
    /\ InitGame
    /\ NoCheckWin
    /\ NoGui

\* The window system queues an event; it can arrive while a callback is in
\* progress.  No more events are queued than calls are left to explore.
Post(e) ==
    /\ calls + Len(events) + Len(callbacks) < budget
    /\ events' = Append(events, e)
    /\ UNCHANGED <<ultimate, mps, max_turns, budget, gameVars, last, calls,
                   cw_board, cw_result, callbacks>>

\* A variant of MainloopIdle: the loop takes events while a callback is in
\* progress.
MainloopAlways == TRUE

\* root.mainloop() takes the next event when the callback of the one before
\* has returned: no callback calls update() or starts a thread.
MainloopIdle == callbacks = <<>>

\* The loop enters the callback of the next event.
Dispatch ==
    /\ MainloopIdle
    /\ events # <<>>
    /\ callbacks' = <<Head(events)>> \o callbacks
    /\ events' = Tail(events)
    /\ UNCHANGED <<ultimate, mps, max_turns, budget, gameVars, last, calls,
                   cw_board, cw_result>>

\* App._click_cell, lines 160-174: a simple rotation, planned for one or two
\* cells; the call holds the auto-collapse and its executor requests.
ClickRotate ==
    /\ callbacks # <<>>
    /\ Head(callbacks).move = "RY"
    /\ \E n \in {1, 2} :
          Rotate(Head(callbacks).board, Head(callbacks).cell, "Y", 1, n)

\* App._click_cell, lines 176-191: the target when a control is pending,
\* the control otherwise.
ClickControlled ==
    /\ callbacks # <<>>
    /\ Head(callbacks).move = "CRX"
    /\ IF has_control
       THEN RotateTarget(Head(callbacks).board, Head(callbacks).cell, "X", 1)
       ELSE RotateControl(Head(callbacks).board, Head(callbacks).cell)

\* App._click_cell, lines 192-194: collapse(board), which returns when the
\* executor has answered.
ClickCollapse ==
    /\ callbacks # <<>>
    /\ Head(callbacks).move = "COLLAPSE"
    /\ CollapseCall(Head(callbacks).board)

\* App._reset, lines 403-421.
ClickReset ==
    /\ callbacks # <<>>
    /\ Head(callbacks).move = "RESET"
    /\ Reset

NextGui ==
    \/ \E e \in GuiEvents : Post(e)
    \/ Dispatch
    \/ ClickRotate
    \/ ClickControlled
    \/ ClickCollapse
    \/ ClickReset

SpecGui == InitGui /\ [][NextGui]_vars

\* ------------------------------------------------- _check_win on its own
\* The boards _check_win is called with: a board's nine cells (Empty, X, O
\* or Committed) or the nine cached wins (Empty, X, O or Draw).
CheckWinBoards ==
    [Cells -> {EMPTY, X, O, ENTANGLED}] \cup [Cells -> {EMPTY, X, O, DRAW}]

InitWin ==
    /\ ultimate = FALSE
    /\ mps = FALSE
    /\ max_turns = MaxTurns
    /\ budget = 0
    /\ InitGame
    /\ cw_board \in CheckWinBoards
    /\ cw_result = "none"
    /\ NoGui

\* One call of _check_win(cw_board).
CheckWin ==
    /\ cw_result = "none"
    /\ cw_result' = PrivCheckWin(cw_board)
    /\ UNCHANGED <<ultimate, mps, max_turns, budget, gameVars, last, calls,
                   cw_board, events, callbacks>>

NextWin == CheckWin

SpecWin == InitWin /\ [][NextWin]_vars

\* ------------------------------------------------------------ the claims
\* The last call ended a turn: the last rotate of a turn or a rotate_target
\* returned normally.
TurnAdvanced ==
    /\ last.op \in {"rotate", "rotate_target"}
    /\ last.outcome = "ok"
    /\ moves_left_in_turn = 0

\* The last call ran a collapse to its end (a call to collapse, or the
\* auto-collapse of a turn-ending call): collapse returns a non-empty set.
Collapsed == last.outcome = "ok" /\ last.ret # {}

Unfinished == {i \in BoardIds : board_wins[i] = EMPTY}

\* C1 as stated: after every turn-advance the selectable boards are the
\* boards touched during the turn that are unfinished, or every unfinished
\* board if there is none.
C1_Original ==
    [][TurnAdvanced' =>
        LET touchedBoards == {b \in BoardIds : touched[b] # {}} \cup {last'.board}
            forced == touchedBoards \cap Unfinished'
        IN  available_boards' = IF forced = {} THEN Unfinished' ELSE forced]_vars

\* C1 (amended): after every turn-advance that does not run the
\* auto-collapse, the selectable boards are the unfinished boards whose index
\* is the index of a cell touched during the turn (any cell index in
\* ultimate mode, index 0 only in classic mode), or every unfinished board
\* if there is none.
C1_ForcedByCells ==
    [][(TurnAdvanced' /\ last'.ret = {}) =>
        LET touchedCells == UNION {touched[b] : b \in BoardIds} \cup {last'.cell}
            forced == {c \in touchedCells : c = 0 \/ ultimate} \cap Unfinished'
        IN  available_boards' = IF forced = {} THEN Unfinished' ELSE forced]_vars

\* C1 witness: a turn ended, without auto-collapse, by a move on a cell
\* whose index names a finished board other than the board moved on, and
\* every unfinished board is selectable.
C1_Witness ==
    /\ TurnAdvanced
    /\ last.ret = {}
    /\ board_wins[last.cell] # EMPTY
    /\ last.board # last.cell
    /\ available_boards = Unfinished

\* The boards reachable from board b through the adjacency map ent, b
\* included.
RECURSIVE ReachFrom(_, _)
ReachFrom(ent, S) ==
    LET T == S \cup UNION {ent[x] : x \in S}
    IN  IF T = S THEN S ELSE ReachFrom(ent, T)

Reachable(ent, b) == ReachFrom(ent, {b})

\* The last call was collapse(b) with a board index b, and it returned.
CollapsedBoard ==
    last.op = "collapse" /\ last.board # NoBoard /\ last.outcome = "ok"

\* C2: collapse(b) returns exactly the boards reachable from b through the
\* adjacency map as it stood when the call started, and on return the
\* adjacency set of every returned board is empty.
C2_Closure ==
    [][CollapsedBoard' =>
        /\ last'.ret = Reachable(entangled_boards, last'.board)
        /\ \A b \in last'.ret : entangled_boards'[b] = {}]_vars

\* C2 witness: collapse(b) returned three boards (two links made of one
\* controlled rotation each, b on one of them).
C2_Witness == CollapsedBoard /\ Cardinality(last.ret) = 3

\* C3 as stated: after any collapse returns, for one board or for all, no
\* adjacency set contains a board of the returned set.
C3_Claim ==
    Collapsed => \A b \in BoardIds : entangled_boards[b] \cap last.ret = {}

\* C3 in the code: a collapse of all boards has returned and two of the
\* returned boards are still in each other's adjacency sets.
C3_Witness ==
    /\ Collapsed /\ last.op = "collapse" /\ last.board = NoBoard
    /\ \E a \in last.ret, b \in last.ret :
          a # b /\ b \in entangled_boards[a] /\ a \in entangled_boards[b]

\* C4: the adjacency map is symmetric in every reachable state.
C4_Symmetric ==
    \A a \in BoardIds, b \in BoardIds :
        (b \in entangled_boards[a]) <=> (a \in entangled_boards[b])

\* C4 witness: two boards are still linked after a collapse of other boards
\* has returned.
C4_Witness ==
    /\ CollapsedBoard
    /\ \E a \in BoardIds, b \in BoardIds :
          a # b /\ b \in entangled_boards[a] /\ a \in entangled_boards[b]

\* An accepted rotate_target has just followed an accepted rotate_control.
ControlThenTarget ==
    /\ last.op = "rotate_control" /\ last.outcome = "ok"
    /\ last'.op = "rotate_target" /\ last'.outcome = "ok"

\* What C5 promises of the two boards, the pending control and the counter.
C5_Linked ==
    /\ last'.board \in entangled_boards'[last.board]
    /\ last.board \in entangled_boards'[last'.board]

C5_ControlCleared == ~has_control' /\ moves_left_in_turn' = 0

C5_BothCommitted ==
    /\ boards'[last.board][last.cell] = ENTANGLED
    /\ boards'[last'.board][last'.cell] = ENTANGLED

\* C5 as stated: after rotate_control(b, c) followed by an accepted
\* rotate_target(b2, c2), the boards are linked both ways, the control is
\* cleared, both cells are Committed and the remaining-move counter is 0.
C5_Original ==
    [][ControlThenTarget =>
        C5_Linked /\ C5_ControlCleared /\ C5_BothCommitted]_vars

\* C5 (amended): after rotate_control(b, c) followed by an accepted
\* rotate_target(b2, c2), the pending control is cleared and the
\* remaining-move counter is 0; when the call did not run the auto-collapse
\* the two boards are linked both ways and both cells are Committed.
C5_Amended ==
    [][ControlThenTarget =>
        /\ C5_ControlCleared
        /\ last'.ret = {} => (C5_Linked /\ C5_BothCommitted)]_vars

\* C5 witness: an accepted rotate_target on another board than the control's
\* that did not run the auto-collapse.
C5_Witness ==
    /\ last.op = "rotate_target" /\ last.outcome = "ok" /\ last.ret = {}
    /\ \E b \in BoardIds \ {last.board} :
          /\ b \in entangled_boards[last.board]
          /\ \E c \in Cells : boards[b][c] = ENTANGLED
    /\ boards[last.board][last.cell] = ENTANGLED


\* C6: a collapse sets every cell of a returned board that was not MarkX or
\* MarkO from the two bits read for it: existence bit 0 gives Empty (also
\* for a Committed cell), existence 1 and symbol 1 gives MarkX, existence 1
\* and symbol 0 gives MarkO.
C6_Interpretation ==
    [][Collapsed' =>
        \A b \in last'.ret, c \in Cells :
            boards[b][c] \notin {X, O} =>
                boards'[b][c] =
                    IF <<b, c>> \notin last'.exist THEN EMPTY
                    ELSE IF <<b, c>> \in last'.symbol THEN X ELSE O]_vars

\* C6 witness: one collapse produced a MarkX, a MarkO and an Empty cell
\* whose symbol bit was 1.
C6_Witness ==
    /\ Collapsed
    /\ \E b \in last.ret, c \in Cells :
          <<b, c>> \in last.exist \cap last.symbol /\ boards[b][c] = X
    /\ \E b \in last.ret, c \in Cells :
          <<b, c>> \in last.exist \ last.symbol /\ boards[b][c] = O

\* C7: a cell that holds MarkX or MarkO holds the same mark after every
\* call but reset, whether the call is accepted or rejected.
C7_MarksStay ==
    [][last'.op = "reset" \/
       \A b \in BoardIds, c \in Cells :
           boards[b][c] \in {X, O} => boards'[b][c] = boards[b][c]]_vars

\* C7 witness: a collapse returned a board with a marked cell that this
\* collapse read existence bit 0 for: the mark is an earlier collapse's.
C7_Witness ==
    /\ Collapsed
    /\ \E b \in last.ret, c \in Cells :
          boards[b][c] \in {X, O} /\ <<b, c>> \notin last.exist

\* C8 as stated: a collapse call that ends with the executor's failure
\* leaves every field of the game as it was before the call.
C8_Claim ==
    [][(last'.op = "collapse" /\ last'.outcome = "SystemError") =>
        UNCHANGED gameVars]_vars

\* C8 in the code: a collapse ended with the executor's failure and the
\* active set of a board that carries a gate is empty.
C8_Witness ==
    /\ last.op = "collapse" /\ last.outcome = "SystemError"
    /\ \E q \in qc : active_cells[q[1]] = {}

\* C9: rotate with |angle| > max_angle, or on a cell that is MarkX or
\* MarkO, is refused and leaves every field of the game unchanged.
C9_Refused ==
    [][\A q \in Qubits, a \in RotateArgs :
          (/\ last'.op = "rotate"
           /\ \/ Abs(a[2]) > max_angle
              \/ q[1] \in BoardIds /\ boards[q[1]][q[2]] \in {X, O}
           /\ Rotate(q[1], q[2], a[1], a[2], a[3]))
          => last'.outcome \in Refusals /\ UNCHANGED gameVars]_vars

\* C9 witness: a rotate within the angle budget was refused because its
\* cell holds a mark.
C9_Witness ==
    /\ last.op = "rotate"
    /\ last.outcome = "Cannot rotate non-empty cell"
    /\ \E b \in BoardIds, c \in Cells : boards[b][c] \in {X, O}

\* C10 as stated: rotate on a Committed cell, with a valid angle and count,
\* is refused with the fields unchanged when the axis is Z, and is accepted
\* (it returns, or it runs into the executor's failure of the auto-collapse)
\* when the axis is X or Y.
C10_Claim ==
    [][\A q \in Qubits, a \in RotateArgs :
          (/\ last'.op = "rotate"
           /\ q[1] \in BoardIds
           /\ boards[q[1]][q[2]] = ENTANGLED
           /\ Abs(a[2]) <= max_angle /\ a[3] > 0
           /\ Rotate(q[1], q[2], a[1], a[2], a[3]))
          => IF a[1] = "Z"
             THEN last'.outcome \in Refusals /\ UNCHANGED gameVars
             ELSE last'.outcome \in {"ok", "SystemError"}]_vars

\* The half of C10 that the code keeps: Z on a Committed cell is refused
\* with the fields unchanged.
C10_ZRefused ==
    [][\A q \in Qubits, a \in RotateArgs :
          (/\ last'.op = "rotate"
           /\ q[1] \in BoardIds
           /\ boards[q[1]][q[2]] = ENTANGLED
           /\ Abs(a[2]) <= max_angle /\ a[3] > 0 /\ a[1] = "Z"
           /\ Rotate(q[1], q[2], a[1], a[2], a[3]))
          => last'.outcome \in Refusals /\ UNCHANGED gameVars]_vars

\* C10 in the code: a Y rotation on a Committed cell, within the angle
\* budget, ended with the KeyError of _touch_cell.
C10_Witness ==
    /\ last.op = "rotate" /\ last.outcome = "KeyError"
    /\ last.axis = "Y" /\ Abs(last.angle) <= max_angle
    /\ boards[last.board][last.cell] = ENTANGLED

\* The last call was a move that did not end a turn (it may have been
\* refused, or have raised).
WithinTurn ==
    /\ last.op \in {"rotate", "rotate_control", "rotate_target"}
    /\ ~TurnAdvanced

\* C11: the turn counter is moved by turn ends only (and by collapse and
\* reset); a turn-ending call that finds it at max_turns - 1 returns the set
\* of all boards and leaves it at 0, any other turn-ending call returns the
\* empty set and adds 1 to it.  Hence, from counter 0, of max_turns turns
\* the first max_turns - 1 return the empty set and the last all boards.
C11_AutoCollapse ==
    [][/\ TurnAdvanced' =>
            IF turns + 1 = max_turns
            THEN last'.ret = BoardIds /\ turns' = 0
            ELSE last'.ret = {} /\ turns' = turns + 1
       /\ (WithinTurn' /\ last'.outcome # "SystemError") => turns' = turns]_vars

\* C11 witness: with max_turns > 1, the call that ended turn number
\* max_turns returned all boards and the counter is 0 again.
C11_Witness ==
    /\ TurnAdvanced
    /\ max_turns > 1
    /\ calls >= max_turns
    /\ last.ret = BoardIds
    /\ turns = 0


\* The last call was an accepted rotate on another cell than q, and no
\* control is pending.
RotatedElsewhere(q) ==
    /\ last.op = "rotate" /\ last.outcome = "ok"
    /\ <<last.board, last.cell>> # q
    /\ c_board = NoBoard

\* C12 as stated: after the first rotate of a turn begun with count 2
\* (one move is left), a rotate on another, Empty cell is accepted; after
\* the second rotate of such a turn (a rotate with count 2 that left no
\* move), a further rotate on another cell is refused.
C12_Claim ==
    [][\A q \in MarkQubits, a \in MarkArgs :
          (/\ last'.op = "rotate"
           /\ q[1] \in BoardIds
           /\ boards[q[1]][q[2]] = EMPTY
           /\ RotatedElsewhere(q)
           /\ Rotate(q[1], q[2], a[1], a[2], a[3]))
          => IF moves_left_in_turn = 1
             THEN last'.outcome \in {"ok", "SystemError"}
             ELSE last.n = 2 => last'.outcome \in Refusals]_vars

\* C12 in the code: the second rotate of a turn, on an Empty cell, ended
\* with the KeyError of _touch_cell and the turn still has one move left.
C12_Witness ==
    /\ last.op = "rotate" /\ last.outcome = "KeyError"
    /\ moves_left_in_turn = 1
    /\ boards[last.board][last.cell] = EMPTY
    /\ last.cell \in touched[last.board]

\* C12 in the code: a rotate that follows the two rotates of a turn begun
\* with count 2 is accepted as the first move of the next turn.
C12_NextTurn ==
    [][\A q \in MarkQubits :
          (/\ last'.op = "rotate"
           /\ q[1] \in available_boards
           /\ boards[q[1]][q[2]] = EMPTY
           /\ RotatedElsewhere(q)
           /\ moves_left_in_turn = 0 /\ last.n = 2
           /\ Rotate(q[1], q[2], "Y", 1, 2))
          => last'.outcome = "ok" /\ moves_left_in_turn' = 1]_vars


\* A collapse(b) of a board linked to no other board returns {b}.
C13_SelfLink ==
    [][(/\ last'.op = "collapse" /\ last'.board # NoBoard
        /\ last'.outcome = "ok"
        /\ entangled_boards[last'.board] \subseteq {last'.board})
       => last'.ret = {last'.board}]_vars

\* C13 as stated: rotate_control(b, c) followed by rotate_target(b, c2) on
\* the same board completes without error, in classic and in ultimate mode,
\* and a later collapse(b) of a board that has only the link to itself
\* returns {b}.
C13_Claim ==
    [][/\ \A q \in Qubits, a \in TargetArgs :
            (/\ last.op = "rotate_control" /\ last.outcome = "ok"
             /\ last'.op = "rotate_target"
             /\ q[1] = last.board /\ q[2] # last.cell
             /\ boards[q[1]][q[2]] \notin {X, O}
             /\ Abs(a[2]) <= max_controlled_angle
             /\ RotateTarget(q[1], q[2], a[1], a[2]))
            => last'.outcome \in {"ok", "SystemError"}
       /\ (/\ last'.op = "collapse" /\ last'.board # NoBoard
           /\ last'.outcome = "ok"
           /\ entangled_boards[last'.board] \subseteq {last'.board})
          => last'.ret = {last'.board}]_vars

\* C13 in the code: a rotate_target on the control's own board ended with
\* the KeyError of _touch_cell, the board already linked to itself.
C13_Witness ==
    /\ last.op = "rotate_target" /\ last.outcome = "KeyError"
    /\ last.board \in entangled_boards[last.board]
    /\ boards[last.board][last.cell] = ENTANGLED
    /\ ~has_control


\* C14 as stated: in every state reached by a turn-advance, by a collapse
\* that returned or by reset, no control is pending.
C14_Claim ==
    (\/ TurnAdvanced
     \/ last.op = "collapse" /\ last.outcome = "ok"
     \/ last.op = "reset")
    => ~has_control

\* C14 in the code: a collapse has returned, a control is still pending and
\* the collapse has reset its cell from Committed to Empty.
C14_Witness ==
    /\ last.op = "collapse" /\ last.outcome = "ok"
    /\ has_control
    /\ c_board \in last.ret
    /\ boards[c_board][c_cell] = EMPTY

\* The part of C14 the code keeps: no control is pending after reset and
\* after a rotate_target that was not refused.
C14_Cleared ==
    (\/ last.op = "reset"
     \/ last.op = "rotate_target" /\ last.outcome \notin Refusals)
    => ~has_control


\* C15: while the aggregate result check_win() is Empty, some board is
\* selectable.
C15_Selectable == check_win = EMPTY => available_boards # {}

\* C15 witness: the game has not ended, a board is finished, and after a
\* turn-advance the selectable boards are unfinished ones.
C15_Witness ==
    /\ check_win = EMPTY
    /\ TurnAdvanced
    /\ \E b \in BoardIds : board_wins[b] # EMPTY
    /\ available_boards # {}
    /\ available_boards \subseteq Unfinished


\* C16 as stated, for two rotations: when a rotate is accepted on the cell
\* of the preceding accepted rotate of the same turn (moves were left), the
\* two angles' magnitudes add up to max_angle at most.
C16_Claim ==
    [][(/\ last.op = "rotate" /\ last.outcome = "ok"
        /\ moves_left_in_turn > 0
        /\ last'.op = "rotate" /\ last'.outcome \in {"ok", "SystemError"}
        /\ last'.board = last.board /\ last'.cell = last.cell)
       => Abs(last.angle) + Abs(last'.angle) <= max_angle]_vars

\* Each accepted rotate alone is within the budget.
C16_Single ==
    (last.op = "rotate" /\ last.outcome \notin Refusals)
    => Abs(last.angle) <= max_angle


\* C17 as stated: rotate_target with |angle| > max_controlled_angle, of
\* either sign, is refused and leaves every field of the game unchanged.
C17_Claim ==
    [][\A q \in Qubits, a \in TargetArgs :
          (/\ last'.op = "rotate_target"
           /\ Abs(a[2]) > max_controlled_angle
           /\ RotateTarget(q[1], q[2], a[1], a[2]))
          => last'.outcome \in Refusals /\ UNCHANGED gameVars]_vars

\* C17 in the code: a rotate_target with an angle below
\* -max_controlled_angle has returned.
C17_Witness ==
    /\ last.op = "rotate_target" /\ last.outcome = "ok"
    /\ last.angle < 0 - max_controlled_angle
    /\ boards[last.board][last.cell] = ENTANGLED

\* The part of C17 the code keeps: a positive angle above
\* max_controlled_angle is refused with the fields unchanged.
C17_Positive ==
    [][\A q \in Qubits, a \in TargetArgs :
          (/\ last'.op = "rotate_target"
           /\ a[2] > max_controlled_angle
           /\ RotateTarget(q[1], q[2], a[1], a[2]))
          => last'.outcome \in Refusals /\ UNCHANGED gameVars]_vars


\* C18 as stated: collapse(b) of a board with an empty active set and no
\* links asks nothing of the executor (so it cannot fail) and leaves the
\* cells, the sub-board wins, the turn counter, the selectable boards and
\* the touched sets as they were.
C18_Claim ==
    [][(/\ last'.op = "collapse" /\ last'.board \in BoardIds
        /\ active_cells[last'.board] = {}
        /\ entangled_boards[last'.board] = {})
       => /\ last'.outcome = "ok"
          /\ UNCHANGED <<boards, board_wins, turns, available_boards,
                         touched>>]_vars

\* C18 in the code: the second call of a game was collapse(b), the first a
\* rotate on another board that ended a turn and forced a board; b had no
\* active cell, and the counter is 0 and every board selectable again.
C18_Witness ==
    /\ last.op = "collapse" /\ last.outcome = "ok"
    /\ last.ret = {last.board}
    /\ calls = 2 /\ ~has_control /\ max_turns > 1
    /\ moves_left_in_turn = 0
    /\ \E b \in BoardIds \ {last.board} : active_cells[b] # {}
    /\ turns = 0
    /\ available_boards = BoardIds

\* The last call was a move that returned without running the
\* auto-collapse.
Moved ==
    /\ last.op \in {"rotate", "rotate_control", "rotate_target"}
    /\ last.outcome = "ok" /\ last.ret = {}

\* The active sets of the boards other than b are unchanged.
OthersActiveUnchanged(b) ==
    \A x \in BoardIds \ {b} : active_cells'[x] = active_cells[x]

\* C19 as stated (reset starts a new game): an active cell stays active
\* until a collapse returns a set that contains its board; an accepted move
\* makes its cell active on its board and changes no other board's active
\* set; after a collapse that returned, the active set of every returned
\* board is empty.
C19_Claim ==
    [][/\ \A b \in BoardIds : \A c \in active_cells[b] :
            (last'.op # "reset" /\ ~(Collapsed' /\ b \in last'.ret))
            => c \in active_cells'[b]
       /\ Moved' => /\ last'.cell \in active_cells'[last'.board]
                    /\ OthersActiveUnchanged(last'.board)
       /\ Collapsed' => \A b \in last'.ret : active_cells'[b] = {}]_vars

\* C19 in the code: a call ended with the executor's failure and a
\* Committed cell is in no active set, though no collapse has returned.
C19_Witness ==
    /\ last.outcome = "SystemError"
    /\ \E b \in BoardIds, c \in Cells :
          boards[b][c] = ENTANGLED /\ c \notin active_cells[b]

\* The part of C19 the code keeps: the same, but for the calls in which
\* the executor fails.
C19_Kept ==
    [][last'.outcome # "SystemError" =>
       /\ \A b \in BoardIds : \A c \in active_cells[b] :
            (last'.op # "reset" /\ ~(Collapsed' /\ b \in last'.ret))
            => c \in active_cells'[b]
       /\ Moved' => /\ last'.cell \in active_cells'[last'.board]
                    /\ OthersActiveUnchanged(last'.board)
       /\ Collapsed' => \A b \in last'.ret : active_cells'[b] = {}]_vars


\* What an accepted rotate_control(b, c) leaves behind.
ControlSet(b, c) ==
    /\ c_board' = b /\ c_cell' = c
    /\ boards'[b][c] = ENTANGLED
    /\ c \in touched'[b]
    /\ moves_left_in_turn' = 1

\* C20 as stated: rotate_control on a cell that is not Empty (Committed,
\* MarkX or MarkO) is refused with every field unchanged; when it is
\* accepted, it leaves the control, the Committed cell, the touched mark
\* and the counter at 1.
C20_Claim ==
    [][\A q \in Qubits :
          (/\ last'.op = "rotate_control"
           /\ q[1] \in BoardIds
           /\ RotateControl(q[1], q[2]))
          => IF boards[q[1]][q[2]] # EMPTY
             THEN last'.outcome \in Refusals /\ UNCHANGED gameVars
             ELSE last'.outcome = "ok" => ControlSet(q[1], q[2])]_vars

\* The part of C20 the code keeps: rotate_control on a MarkX or MarkO cell
\* is refused with every field unchanged, and an accepted one leaves the
\* control, the Committed cell, the touched mark and the counter at 1.
C20_Marked ==
    [][\A q \in Qubits :
          (/\ last'.op = "rotate_control"
           /\ q[1] \in BoardIds
           /\ RotateControl(q[1], q[2]))
          => IF boards[q[1]][q[2]] \in {X, O}
             THEN last'.outcome \in Refusals /\ UNCHANGED gameVars
             ELSE last'.outcome = "ok" => ControlSet(q[1], q[2])]_vars


\* C21 as stated: rotate_control called while a control is pending is
\* refused and changes no field.
C21_Claim ==
    [][(last'.op = "rotate_control" /\ has_control)
          => (last'.outcome \in Refusals /\ UNCHANGED gameVars)]_vars

\* A second rotate_control was accepted: two cells of board 0 are
\* Committed, neither carries a gate, so neither has had a target.
C21_Witness ==
    /\ last.op = "rotate_control" /\ last.outcome = "ok"
    /\ has_control
    /\ boards[0][0] = ENTANGLED /\ boards[0][1] = ENTANGLED
    /\ qc = {}


Range(seq) == {seq[k] : k \in DOMAIN seq}

\* The cells of a board a move may be made on, as the text describes them.
Eligible(b, m) ==
    {c \in Cells : /\ c \notin touched[b]
                   /\ \/ boards[b][c] = EMPTY
                      \/ m # "RZ" /\ boards[b][c] = ENTANGLED}

\* C22: available_cells(board, move) lists, each once, exactly the cells of
\* the board that were not touched in the current turn and are Empty, or
\* Empty or Committed when the move is not the Z rotation; it never lists a
\* MarkX or MarkO cell, and for the Z rotation never a Committed cell.
C22_AvailableCells ==
    \A b \in BoardIds, m \in Move :
        LET r == available_cells(b, m)
        IN  /\ Len(r) = Cardinality(Range(r))
            /\ Range(r) = Eligible(b, m)
            /\ \A c \in Range(r) :
                  /\ boards[b][c] \notin {X, O}
                  /\ m = "RZ" => boards[b][c] # ENTANGLED

\* Some board has a Committed cell that is listed for the X rotation and
\* not for the Z rotation, and some board has a touched cell, not listed.
C22_Witness ==
    /\ \E b \in BoardIds : \E c \in Cells :
          /\ boards[b][c] = ENTANGLED
          /\ c \in Range(available_cells(b, "RX"))
          /\ c \notin Range(available_cells(b, "RZ"))
    /\ \E b \in BoardIds : \E c \in touched[b] :
          /\ boards[b][c] \in {EMPTY, ENTANGLED}
          /\ c \notin Range(available_cells(b, "RX"))


\* The number of cells a move may be made on, over the selectable boards.
EligibleTotal(m) ==
    Cardinality({q \in available_boards \X Cells : q[2] \in Eligible(q[1], m)})

\* The positions of a candidate list whose move has enough cells: one for
\* the single rotations and the collapse, two for the controlled rotations.
Kept(cand) ==
    {k \in DOMAIN cand :
        EligibleTotal(cand[k]) >=
            (IF cand[k] \in {"RX", "RY", "RZ", "COLLAPSE"} THEN 1 ELSE 2)}

\* The k-th smallest element of a set of positions.
Nth(S, k) == CHOOSE j \in S : Cardinality({i \in S : i < j}) = k - 1

\* C23: available_moves(candidates) is the candidates, in their order, whose
\* number of available cells over available_boards(move) reaches the move's
\* threshold, and available_boards(move) is the selectable boards with at
\* least one available cell for the move.
C23_AvailableMoves ==
    /\ \A m \in Move :
          AvailableBoards(m) = {b \in available_boards : Eligible(b, m) # {}}
    /\ \A cand \in Candidates :
          LET r == available_moves(cand)
          IN  /\ Len(r) = Cardinality(Kept(cand))
              /\ \A k \in DOMAIN r : r[k] = cand[Nth(Kept(cand), k)]

\* One cell is left for the single rotations, so the controlled rotation is
\* dropped from the list and the moves around it are kept in order.
C23_Witness ==
    /\ EligibleTotal("RY") = 1
    /\ available_moves(<<"RY", "RZ", "CRX", "COLLAPSE">>)
           = <<"RY", "RZ", "COLLAPSE">>

\* The eight lines of a board, and whether a mark completes one.
Lines ==
    {{0, 1, 2}, {3, 4, 5}, {6, 7, 8}, {0, 3, 6}, {1, 4, 7}, {2, 5, 8},
     {0, 4, 8}, {2, 4, 6}}

LinesOf(b, mark) == {l \in Lines : \A c \in l : b[c] = mark}

Returned == cw_result # "none"

\* C24: when one mark completes at least one line and the other mark
\* completes none, _check_win returns that mark, whatever the other cells
\* hold.
C24_Winner ==
    Returned =>
        /\ (LinesOf(cw_board, X) # {} /\ LinesOf(cw_board, O) = {})
              => cw_result = X
        /\ (LinesOf(cw_board, O) # {} /\ LinesOf(cw_board, X) = {})
              => cw_result = O

\* X completes the two diagonals, the other cells are Committed, O and
\* Empty, and the call returned X.
C24_Witness ==
    /\ cw_result = X
    /\ LinesOf(cw_board, X) = {{0, 4, 8}, {2, 4, 6}}
    /\ cw_board[1] = ENTANGLED /\ cw_board[3] = O /\ cw_board[5] = EMPTY

\* C25: when X completes a line and O completes another, _check_win
\* returns Draw, also when the board has Empty cells.
C25_BothDraw ==
    Returned =>
        ((LinesOf(cw_board, X) # {} /\ LinesOf(cw_board, O) # {})
            => cw_result = DRAW)

\* O completes the first column and X the last, the middle column is Empty,
\* and the call returned Draw: the line of O is examined first.
C25_Witness ==
    /\ cw_result = DRAW
    /\ LinesOf(cw_board, O) = {{0, 3, 6}}
    /\ LinesOf(cw_board, X) = {{2, 5, 8}}
    /\ \A c \in {1, 4, 7} : cw_board[c] = EMPTY

\* C26: when no line is completed, _check_win returns Draw if no cell is
\* Empty and Empty otherwise.
C26_NoLine ==
    Returned =>
        ((LinesOf(cw_board, X) = {} /\ LinesOf(cw_board, O) = {})
            => cw_result = (IF \A c \in Cells : cw_board[c] # EMPTY
                            THEN DRAW ELSE EMPTY))

\* A board without a completed line and without an Empty cell, some of its
\* cells Committed, and the call returned Draw.
C26_Witness ==
    /\ cw_result = DRAW
    /\ LinesOf(cw_board, X) = {} /\ LinesOf(cw_board, O) = {}
    /\ \A c \in Cells : cw_board[c] # EMPTY
    /\ \E c \in Cells : cw_board[c] = ENTANGLED


\* The Win Detector of the text: Draw when both marks complete a line, the
\* mark that completes a line, else Draw on a board without an Empty cell
\* and Empty otherwise.
WinOf(b) ==
    IF LinesOf(b, X) # {} /\ LinesOf(b, O) # {} THEN DRAW
    ELSE IF LinesOf(b, X) # {} THEN X
    ELSE IF LinesOf(b, O) # {} THEN O
    ELSE IF \A c \in Cells : b[c] # EMPTY THEN DRAW
    ELSE EMPTY

\* C27: after a collapse the cached win of every returned board is the Win
\* Detector's result on the board's cells, and check_win() is the Win
\* Detector's result on the nine cached wins in ultimate mode and the
\* single board's result in classic mode.
C27_Wins ==
    Collapsed =>
        /\ \A b \in last.ret : board_wins[b] = WinOf(boards[b])
        /\ check_win = IF ultimate THEN WinOf(board_wins)
                       ELSE WinOf(boards[0])

\* A collapse returned a board on which a mark has completed a line.
C27_Witness ==
    /\ Collapsed
    /\ \E b \in last.ret :
          /\ board_wins[b] \in {X, O}
          /\ LinesOf(boards[b], board_wins[b]) # {}


\* The last step is a collapse called by the front end that returned.
CollapseReturned == last'.op = "collapse" /\ last'.outcome = "ok"

\* The gates recorded on the qubits of board b.
GatesOn(circuit, b) == {q \in circuit : q[1] = b}

\* C28 as stated: a collapse changes only cells that were in the active set
\* of a returned board; the cells of the other boards, the MarkX and MarkO
\* cells and the Empty cells in no active set keep their state, and the
\* active sets and recorded gates of the other boards are unchanged.
C28_Claim ==
    [][CollapseReturned =>
          /\ \A b \in BoardIds : \A c \in Cells :
                boards'[b][c] # boards[b][c]
                    => (b \in last'.ret /\ c \in active_cells[b])
          /\ \A b \in BoardIds \ last'.ret :
                /\ active_cells'[b] = active_cells[b]
                /\ GatesOn(qc', b) = GatesOn(qc, b)]_vars

\* The part of C28 the code keeps: the cells of the boards that are not
\* returned and the MarkX and MarkO cells keep their state, and the active
\* sets and recorded gates of the boards that are not returned are
\* unchanged.
C28_Outside ==
    [][CollapseReturned =>
          /\ \A b \in BoardIds : \A c \in Cells :
                (b \notin last'.ret \/ boards[b][c] \in {X, O})
                    => boards'[b][c] = boards[b][c]
          /\ \A b \in BoardIds \ last'.ret :
                /\ active_cells'[b] = active_cells[b]
                /\ GatesOn(qc', b) = GatesOn(qc, b)]_vars

\* On the matrix-product-state simulator a collapse changes only cells
\* that were active or Committed on a returned board.
C28_ActiveOrCommitted ==
    [][CollapseReturned =>
          \A b \in BoardIds : \A c \in Cells :
              boards'[b][c] # boards[b][c]
                  => /\ b \in last'.ret
                     /\ \/ c \in active_cells[b] /\ mps
                        \/ boards[b][c] = ENTANGLED
                        \/ <<b, c>> \in qc /\ ~mps]_vars


\* The last step is an accepted rotate that did not run the auto-collapse.
RotateAccepted ==
    last'.op = "rotate" /\ last'.outcome = "ok" /\ last'.ret = {}

\* C29 as stated: an accepted rotate on an Empty cell leaves the cell
\* Committed and active, and a Z rotate on a cell that is active (rotated
\* and not measured since) is refused.
C29_Claim ==
    [][/\ (RotateAccepted /\ boards[last'.board][last'.cell] = EMPTY)
              => /\ boards'[last'.board][last'.cell] = ENTANGLED
                 /\ last'.cell \in active_cells'[last'.board]
       /\ \A q \in Qubits :
              (/\ last'.op = "rotate"
               /\ q[1] \in BoardIds
               /\ q[2] \in active_cells[q[1]]
               /\ Rotate(q[1], q[2], "Z", 1, 1))
              => last'.outcome \in Refusals]_vars

\* An accepted rotate has left its cell Empty, active and with a gate.
C29_Witness ==
    /\ last.op = "rotate" /\ last.outcome = "ok" /\ last.ret = {}
    /\ boards[last.board][last.cell] = EMPTY
    /\ last.cell \in active_cells[last.board]
    /\ <<last.board, last.cell>> \in qc

\* The part of C29 the code keeps: an accepted rotate leaves its cell
\* active, in the state it had.
C29_Active ==
    [][RotateAccepted
          => /\ boards'[last'.board][last'.cell] = boards[last'.board][last'.cell]
             /\ last'.cell \in active_cells'[last'.board]]_vars


\* The fields of a game that has just been constructed, the circuit aside.
FreshFields ==
    /\ boards' = [b \in BoardIds |-> [c \in Cells |-> EMPTY]]
    /\ board_wins' = [i \in 0 .. 8 |-> EMPTY]
    /\ turns' = 0
    /\ ~has_control' /\ c_cell' = NoBoard
    /\ moves_left_in_turn' = 0
    /\ touched' = [b \in BoardIds |-> {}]
    /\ active_cells' = [b \in BoardIds |-> {}]
    /\ entangled_boards' = [b \in BoardIds |-> {}]
    /\ available_boards' = BoardIds

\* C30 as stated: reset() returns the game to its initial state, the
\* recorded gates included: no gate recorded before the reset is left.
C30_Claim ==
    [][last'.op = "reset" => (FreshFields /\ qc' = {})]_vars

\* A reset has returned and the circuit still carries a gate.
C30_Witness == last.op = "reset" /\ qc # {}

\* The part of C30 the code keeps: reset() returns every field but the
\* circuit to its initial value.
C30_Fields ==
    [][last'.op = "reset" => (FreshFields /\ qc' = qc)]_vars


\* The last step ended a turn and ran the auto-collapse to its end.
AutoCollapsed == TurnAdvanced' /\ last'.ret # {}

\* The selectable boards the forced-board rule gives for a set of forced
\* boards: the unfinished ones, or every unfinished board if there is none.
ForcedOrFree(forced) ==
    IF forced \cap Unfinished' = {} THEN Unfinished'
    ELSE forced \cap Unfinished'

\* C31 as stated: when the turn-advance runs the auto-collapse, the
\* selectable boards are still the forced boards of the turn that ended
\* (the boards named by the touched cells' indices, or the boards touched)
\* that are unfinished, and every unfinished board only if there is none.
C31_Claim ==
    [][AutoCollapsed =>
        LET touchedCells == UNION {touched[b] : b \in BoardIds} \cup {last'.cell}
            touchedBoards == {b \in BoardIds : touched[b] # {}} \cup {last'.board}
        IN  \/ available_boards' =
                   ForcedOrFree({c \in touchedCells : c = 0 \/ ultimate})
            \/ available_boards' = ForcedOrFree(touchedBoards)]_vars

\* An ultimate game: the move that ended the turn ran the auto-collapse,
\* the board it touched and the board its cell names are unfinished, and
\* all nine boards are selectable.
C31_Witness ==
    /\ TurnAdvanced /\ last.ret = BoardIds
    /\ ultimate
    /\ board_wins[last.board] = EMPTY /\ board_wins[last.cell] = EMPTY
    /\ available_boards = BoardIds

\* What the code does: after a turn-advance that ran the auto-collapse
\* every unfinished board is selectable.
C31_Free == [][AutoCollapsed => available_boards' = Unfinished']_vars


\* The last step is an accepted rotate.
RotateReturned == last'.op = "rotate" /\ last'.outcome = "ok"

\* C32, per accepted rotate: the first rotate of a turn (counter 0) sets the
\* counter to its plannedCount less one, a later one (counter above 0)
\* takes one off whatever its plannedCount; while the counter stays above 0
\* the rotate returns the empty set, the turn counter is unchanged and the
\* touched cells are kept; the rotate that brings it to 0 advances the turn
\* once: the touched sets are cleared, the selectable boards recomputed and
\* the turn counter is one more (0 after the auto-collapse).  Hence in a
\* turn of rotates begun with plannedCount n the advance comes on the n-th.
C32_PlannedCount ==
    [][RotateReturned =>
        /\ moves_left_in_turn' =
               (IF moves_left_in_turn = 0 THEN last'.n
                ELSE moves_left_in_turn) - 1
        /\ moves_left_in_turn' > 0 =>
               /\ last'.ret = {}
               /\ turns' = turns
               /\ touched' = [touched EXCEPT ![last'.board] =
                                                 @ \cup {last'.cell}]
        /\ moves_left_in_turn' = 0 =>
               /\ touched' = [b \in BoardIds |-> {}]
               /\ turns' = IF last'.ret = {} THEN turns + 1 ELSE 0
               /\ last'.ret = {} =>
                     available_boards' =
                         ForcedOrFree({c \in UNION {touched[b] : b \in BoardIds}
                                                \cup {last'.cell} :
                                          c = 0 \/ ultimate})]_vars

\* A rotate with plannedCount 2 ended a turn of two rotates of which the
\* first was rotate too: its plannedCount was ignored.
C32_Witness ==
    /\ TurnAdvanced /\ last.op = "rotate" /\ last.n = 2
    /\ calls = 2 /\ turns = 1
    /\ Cardinality(UNION {{<<b, c>> : c \in active_cells[b]} : b \in BoardIds}) = 2

\* C32 in a classic game of rotates planned for nine cells: the turn
\* advances on the ninth accepted rotate and on no earlier one.
C32_Ninth ==
    /\ calls \in 1 .. 8 =>
          /\ turns = 0 /\ moves_left_in_turn = 9 - calls
          /\ last.ret = {} /\ touched[0] # {}
    /\ calls = 9 => turns = 1 /\ moves_left_in_turn = 0 /\ touched[0] = {}


\* C33: every collapse that returns, a collapse of one board included,
\* leaves the turn counter at 0, every touched set empty and every
\* unfinished board selectable.
C33_Restart ==
    Collapsed =>
        /\ turns = 0
        /\ touched = [b \in BoardIds |-> {}]
        /\ available_boards = Unfinished

\* An ultimate game with max_turns 2: a turn was played on board 1, then
\* collapse(0) returned board 0 alone; the counter is back to 0 and all
\* nine boards are selectable although board 1 was not collapsed.
C33_Witness ==
    /\ ultimate /\ max_turns = 2
    /\ last.op = "collapse" /\ last.outcome = "ok" /\ last.ret = {0}
    /\ <<1, 0>> \in qc /\ active_cells[1] = {0}
    /\ turns = 0 /\ available_boards = BoardIds


\* The last step is a move that returned and did not end the turn.
MovedWithinTurn == WithinTurn' /\ last'.outcome = "ok"

\* C34: a step that adds a board to the selectable boards is a turn-advance,
\* a collapse or a reset; a move that returns within the turn takes its own
\* board out of the set when more than one board is selectable and leaves
\* the set alone otherwise.
C34_NoGain ==
    [][/\ ~(available_boards' \subseteq available_boards)
            => (TurnAdvanced' \/ last'.op \in {"collapse", "reset"})
       /\ MovedWithinTurn
            => available_boards' =
                   IF Cardinality(available_boards) # 1
                   THEN available_boards \ {last'.board}
                   ELSE available_boards]_vars

\* An ultimate game: a move within a turn has taken its board out of the
\* nine selectable boards.
C34_Witness ==
    /\ WithinTurn /\ last.outcome = "ok"
    /\ ultimate
    /\ available_boards = BoardIds \ {last.board}

\* A move within a turn was made on the only selectable board, which stays
\* selectable.
C34_Single ==
    /\ WithinTurn /\ last.outcome = "ok"
    /\ available_boards = {last.board}


\* The move kind of a rotation about an axis, single or controlled.
MoveOf(axis) == "R" \o axis
ControlledMoveOf(axis) == "CR" \o axis

\* Board b and cell c are offered by the queries for move m.
Offered(b, c, m) ==
    /\ b \in AvailableBoards(m)
    /\ c \in Range(available_cells(b, m))

\* The call ended without a failed precondition and without an internal
\* error (a failure of the executor is the executor's).
Accepted == last'.outcome \in {"ok", "SystemError"}

\* C35 as stated: a rotate, rotate_control or rotate_target on a board of
\* available_boards(move) and a cell of available_cells(board, move), with
\* an angle within the budget (and, for rotate_target, a pending control),
\* is accepted.
C35_Claim ==
    [][\A q \in Qubits :
        /\ \A a \in RotateArgs :
              (/\ last'.op = "rotate"
               /\ Abs(a[2]) <= max_angle /\ a[3] > 0
               /\ Offered(q[1], q[2], MoveOf(a[1]))
               /\ Rotate(q[1], q[2], a[1], a[2], a[3]))
              => Accepted
        /\ (/\ last'.op = "rotate_control"
            /\ Offered(q[1], q[2], "CRX")
            /\ RotateControl(q[1], q[2]))
              => Accepted
        /\ \A a \in TargetArgs :
              (/\ last'.op = "rotate_target"
               /\ has_control
               /\ Abs(a[2]) <= max_controlled_angle
               /\ Offered(q[1], q[2], ControlledMoveOf(a[1]))
               /\ RotateTarget(q[1], q[2], a[1], a[2]))
              => Accepted]_vars

\* The part of C35 the code keeps: an offered rotate or rotate_control is
\* accepted, and so is an offered rotate_target whose cell is not the
\* pending control.
C35_Sound ==
    [][\A q \in Qubits :
        /\ \A a \in RotateArgs :
              (/\ last'.op = "rotate"
               /\ Abs(a[2]) <= max_angle /\ a[3] > 0
               /\ Offered(q[1], q[2], MoveOf(a[1]))
               /\ Rotate(q[1], q[2], a[1], a[2], a[3]))
              => Accepted
        /\ (/\ last'.op = "rotate_control"
            /\ Offered(q[1], q[2], "CRX")
            /\ RotateControl(q[1], q[2]))
              => Accepted
        /\ \A a \in TargetArgs :
              (/\ last'.op = "rotate_target"
               /\ has_control /\ <<c_board, c_cell>> # q
               /\ Abs(a[2]) <= max_controlled_angle
               /\ Offered(q[1], q[2], ControlledMoveOf(a[1]))
               /\ RotateTarget(q[1], q[2], a[1], a[2]))
              => Accepted]_vars


\* A rotate_target on the pending control's own cell was refused by the
\* circuit although the queries offer that board and cell (a refused call
\* changes no field, so they were offered when it was made).
C35_Witness ==
    /\ last.op = "rotate_target" /\ last.outcome = "CircuitError"
    /\ has_control
    /\ Offered(c_board, c_cell, "CRX")


\* C36 as stated: a board's cached win result that is not Empty keeps its
\* value over every call but reset, the moves being made on boards and
\* cells the queries offer.
C36_Claim ==
    [][\A b \in BoardIds :
          (board_wins[b] # EMPTY /\ last'.op # "reset")
            => board_wins'[b] = board_wins[b]]_vars

\* A collapse of another board has cached a draw for a board that was not
\* collapsed and whose cells are all Committed: none of them is decided.
C36_Witness ==
    /\ last.op = "collapse" /\ last.outcome = "ok"
    /\ \E b \in BoardIds \ last.ret :
          /\ board_wins[b] = DRAW
          /\ \A c \in Cells : boards[b][c] = ENTANGLED


\* C37: a board whose cached win result is not Empty is not in the set of
\* selectable boards and is not returned by available_boards(move) for any
\* move.
C37_NotSelectable ==
    \A b \in BoardIds :
        board_wins[b] # EMPTY
          => /\ b \notin available_boards
             /\ \A m \in Move : b \notin AvailableBoards(m)

\* A collapse has finished board 0 in an ultimate game and left other
\* boards selectable.
C37_Witness ==
    /\ ultimate
    /\ last.op = "collapse" /\ last.outcome = "ok"
    /\ board_wins[0] # EMPTY
    /\ available_boards # {}


\* C38 as stated: after every call that returns, the turn counter is at
\* least 0 and below max_turns, the remaining-move counter is not
\* negative, and when it is 0 every touched set is empty.
C38_Claim ==
    last.outcome = "ok"
      => /\ 0 <= turns /\ turns < max_turns
         /\ moves_left_in_turn >= 0
         /\ (moves_left_in_turn = 0 => \A b \in BoardIds : touched[b] = {})

\* The bounds of C38 on the counters and the touched sets.
TurnBounds ==
    /\ 0 <= turns /\ turns < max_turns
    /\ moves_left_in_turn >= 0
    /\ (moves_left_in_turn = 0 => \A b \in BoardIds : touched[b] = {})

\* The part of C38 the code keeps: a call that starts with the turn counter
\* below max_turns and returns leaves the bounds in place; the counter
\* leaves its range only in a call that raises.
C38_Kept ==
    [][/\ (turns < max_turns /\ last'.outcome = "ok") => TurnBounds'
       /\ (turns < max_turns /\ ~(turns' < max_turns))
            => last'.outcome = "SystemError"]_vars

\* A call has returned with the turn counter past max_turns, after an
\* auto-collapse that failed.
C38_Witness ==
    /\ last.outcome = "ok"
    /\ last.op \in {"rotate", "rotate_target", "rotate_control"}
    /\ turns >= max_turns

\* Every Committed cell is active and no active cell is marked.
CommittedActive ==
    \A b \in BoardIds :
        \A c \in Cells :
            /\ boards[b][c] = ENTANGLED => c \in active_cells[b]
            /\ c \in active_cells[b] => boards[b][c] \notin {X, O}

\* C39 as stated: in every reachable state every Committed cell is in its
\* board's active set and no active cell is X or O.
C39_Claim == CommittedActive

\* The part of C39 the code keeps: every call but one in which the executor
\* fails keeps "Committed cells are active, active cells are not marked",
\* and a collapse that returns leaves no Committed cell on the boards it
\* returns.
C39_Kept ==
    [][/\ (CommittedActive /\ last'.outcome # "SystemError")
            => CommittedActive'
       /\ (last'.outcome = "ok")
            => \A b \in last'.ret :
                  \A c \in Cells : boards'[b][c] # ENTANGLED]_vars

\* A collapse has failed in the executor and left a Committed cell that is
\* in no active set.
C39_Witness ==
    /\ last.outcome = "SystemError"
    /\ \E b \in BoardIds :
          \E c \in Cells :
              boards[b][c] = ENTANGLED /\ c \notin active_cells[b]

\* A callback is in progress whose call of the engine is a collapse: the
\* call, with its executor requests, has not returned.
CollapseOutstanding ==
    /\ callbacks # <<>>
    /\ Head(callbacks).move = "COLLAPSE"

\* C40: in the GUI every call that changes the engine runs to its end
\* inside one callback: while a callback is in progress no other callback
\* starts, the engine's fields change only in the step in which the
\* callback in progress ends, and while a collapse is outstanding that step
\* is the collapse's own return.
C40_Serialized ==
    [][/\ callbacks # <<>> => Len(callbacks') <= Len(callbacks)
       /\ gameVars' # gameVars
            => callbacks # <<>> /\ callbacks' = Tail(callbacks)
       /\ (CollapseOutstanding /\ gameVars' # gameVars)
            => last'.op = "collapse"]_vars

\* A collapse is outstanding and a click that asks for another call of the
\* engine has arrived and waits in the queue.
C40_Witness ==
    /\ CollapseOutstanding
    /\ events # <<>>
    /\ Head(events).move \in {"RY", "CRX", "RESET"}


====
